---- MODULE Spec2Model ----
(***************************************************************************)
(* Janus, a UDP-to-HTTP forwarding gateway (nilium/janus).                 *)
(*                                                                         *)
(* Two layers of goroutines are modelled.                                  *)
(*                                                                         *)
(*  - The porthole layer (Spec, FairSpec): one porthole.Listen call with   *)
(*    its rebind loop, and inside it porthole.listen with its read loop,   *)
(*    the socket-closer goroutine, the asyncRead goroutines, the one-slot  *)
(*    result channel, the socket and the receive buffer.  The context      *)
(*    passed to Listen is cancelled by the environment at any moment.      *)
(*                                                                         *)
(*  - The supervisor layer (SysSpec, SysFairSpec): main, its signal        *)
(*    handler, the DelayFunc goroutine, the failure watcher, runGateway    *)
(*    and gateway.Start with its error channel, context watcher and one    *)
(*    runner goroutine per porthole.  In this layer a runner's call of     *)
(*    porthole.Listen is one step whose results are those the porthole     *)
(*    layer shows Listen to have (ListenOutcomeOK).                        *)
(*                                                                         *)
(* Four functions are modelled on their own, each called on inputs drawn   *)
(* from small sets: backoff.backoff with backoff.randfactor (BackoffSpec), *)
(* gateway.String (StringSpec), newGateway with the caller's later writes  *)
(* to its PortConfig (GatewaySpec), and PortConfig.handleBackoff           *)
(* (ConfigSpec).  Two groups of goroutines are modelled on their own as    *)
(* well: the Signal of mksignal with the callers of its BroadcastFunc and  *)
(* its waiters (SignalSpec, SignalFairSpec), and gateway.Start of one      *)
(* gateway with up to MaxRunners portholes (StartSpec, StartFairSpec).     *)
(* While one part runs, the variables of the others rest.                  *)
(***************************************************************************)
EXTENDS Integers, Sequences, FiniteSets, TLC

(***************************************************************************)
(* Bounds of the model.                                                    *)
(***************************************************************************)
\* successful ReadFromUDP calls the environment grants to one listen call
MaxReads == 2
\* binds the environment lets survive for more than a minute
MaxLong == 1
\* bytes of the receive buffer that are modelled (65507 in the code)
BufLen == 2

\* gateways (config.Ports) of a configuration
MaxGateways == 2
\* portholes (cfg.Listen) of all gateways together
MaxPortholes == 2
\* SIGINTs the environment sends
MaxSigints == 1
\* the largest retry backoff is called with
MaxRetry == 2
\* query parameters of a forward URL
MaxParams == 2
\* listen addresses of the PortConfig handed to newGateway
MaxListen == 2
\* parameters of a backoff directive
MaxArgs == 5
\* calls of die() the signal handler makes (one per SIGINT received)
MaxDie == 2
\* portholes of the gateway whose Start is modelled on its own
MaxRunners == 4

(***************************************************************************)
(* Program constants.                                                      *)
(***************************************************************************)
\* porthole.Listen: const retries = 10
Retries == 10
\* porthole.listen: errch = make(chan result, 1)
ResultCap == 1
\* gateway.Start: errch := make(chan error, 3)
ErrorCap == 3
\* main: signals := make(chan os.Signal, 1)
SignalCap == 1

(***************************************************************************)
(* Errors.  An error is <<kind, call>>: call is the number of the listen   *)
(* call that produced it (0 for the context's error and for nil), so that  *)
(* the error of one attempt differs from that of another.                  *)
(***************************************************************************)
Nil == <<"nil", 0>>
Canceled == <<"canceled", 0>>
Kind(e) == e[1]

\* err == context.Canceled || err == context.DeadlineExceeded || err == nil
IsCleanClose(e) == Kind(e) \in {"canceled", "nil"}

\* err.(type) is net.Error
IsNetError(e) == Kind(e) \in {"temp", "neterr", "closed"}

\* no error is temporary
TemporaryNever(e) == FALSE

\* te.Temporary()
Temporary(e) == Kind(e) = "temp"

\* oe, ok := err.(*net.OpError); ok && oe.Op == "listen"
IsListenOpError(e) == Kind(e) = "listen"

\* datagrams the environment sends: one shorter than the buffer, one filling it
Datagrams == {<<1>>, <<2, 3>>}

ZeroBuf == [k \in 1..BufLen |-> 0]

\* a memclr that clears nothing
memclrNothing(b, m) == b

\* memclr(block), block = buf[:m]
memclr(b, m) == [k \in 1..BufLen |-> IF k <= m THEN 0 ELSE b[k]]

\* an off-by-one slice
BlockShort(b, m) == SubSeq(b, 1, m - 1)

\* block := buf[:n]
Block(b, m) == SubSeq(b, 1, m)

\* ReadFromUDP copying datagram d into dst
CopyInto(b, d) == [k \in 1..BufLen |-> IF k <= Len(d) THEN d[k] ELSE b[k]]

VARIABLES
  \* ---- porthole.Listen
  pctx,       \* the context passed to Listen is cancelled
  lpc,        \* Listen: "bind" | "resolve" | "listen" | "check" | "wait" | "done"
  i,          \* Listen's attempt counter
  lerr,       \* Listen's err: the result of the last listen call
  lret,       \* Listen's return value
  tlong,      \* time.Since(t) > time.Minute for the last listen call
  calls,      \* history: listen calls made
  longs,      \* history: listen calls that lasted more than a minute
  streak,     \* history: latest consecutive failures under a minute
  \* ---- porthole.listen
  mpc,        \* read loop: "idle" | "loop" | "recv" | "write"
  merr,       \* the read loop's err: the error of the last read or write
  cctx,       \* listen's own cancel() was called
  conn,       \* "none" | "open" | "closed"
  closes,     \* conn.Close() calls on the current socket
  errch,      \* the result channel
  cpc,        \* closer goroutine: "none" | "wait" | "close" | "done"
  ar,         \* asyncRead goroutines alive
  buf,        \* msg
  n,          \* n of the read loop
  readOK,     \* history: datagrams ReadFromUDP returned, in order
  written,    \* history: payloads passed to proxy.Write, in order
  \* ---- main
  ports,      \* config.Ports: the number of listen addresses of each port
  mainPc,     \* main: "spawn" | "shutdown" | "wgwait" | "returned"
  ctx,        \* main's ctx is cancelled
  shutdown,   \* SHUTDOWN is closed
  wg,         \* the WaitGroup's counter
  sigs,       \* history: SIGINTs sent
  sigq,       \* signals queued in the handler's channel
  hpc,        \* signal handler: "recv" | "cancel"
  dpc,        \* SHUTDOWN.DelayFunc goroutine: "wait" | "cancel" | "done"
  wpc,        \* failure watcher: "none" | "select" | "fatal" (logged, die()) | "done"
  \* ---- runGateway and gateway.Start, per gateway
  gpc,        \* "idle" | "recv" | "wgdone" | "rcancel" | "done"
  gcancel,    \* Start's own cancel() was called
  gerrch,     \* Start's errch
  gret,       \* Start's return value
  gwatch,     \* Start's context watcher: "none" | "wait" | "done"
  runner,     \* per porthole: "none" | "listen" | "select" | "done"
  rerr,       \* per porthole: what its Listen returned
  first,      \* history: the first send on errch: its sender (0: the watcher) and value
  \* ---- backoff.backoff and backoff.randfactor
  bo,         \* the receiver: the backoff parameters
  retry,      \* the argument retry
  bpc,        \* "idle" | "call" | "rand" | "done"
  rmax,       \* randfactor's max, the bound handed to rand.Int
  rn,         \* the n rand.Int returned
  delay,      \* backoff's return value
  \* ---- gateway.String
  fwd,        \* cfg.Forward of two gateways whose configurations are otherwise the same
  shown,      \* what String returned for each of the two, <<>> before the call
  \* ---- newGateway and its caller
  ccfg,       \* the caller's PortConfig (what cfg points to)
  arrays,     \* the heap: backing arrays of []*Addr slices
  addrs,      \* the heap: Addr objects
  urls,       \* the heap: url.URL objects
  gw,         \* the gateway newGateway returned: its cfg and its portholes
  gwpc,       \* "idle" | "new" | "built"
  built,      \* history: what the gateway showed when newGateway returned
  \* ---- PortConfig.handleBackoff
  directive,  \* history: the parameters of the backoff directive
  hargs,      \* args
  pbk,        \* p.Backoff
  hb,         \* b
  seen,       \* the keywords whose seen... flag is set
  kpc,        \* "idle" | "interval" | "pairs" | "check" | "done"
  kerr,       \* the message of the error returned, "nil" for none
  \* ---- mksignal: the Signal and its BroadcastFunc
  sigch,      \* sig: "open" | "closed"
  sclosed,    \* history: executions of close(sig) that closed it
  spanic,     \* a call of the BroadcastFunc panicked (close of a closed channel)
  odone,      \* once: done
  omu,        \* once: the caller that holds m, "none" when unlocked
  dcall,      \* per caller, its call of the BroadcastFunc: "idle" | "lock" | "slow" | "store"
  dbegun,     \* history, per caller: calls of the BroadcastFunc begun
  waiter,     \* per waiter: "wait" | "sleep" | "fn" | "done"
  fnruns,     \* history, per waiter: runs of its callback
  \* ---- gateway.Start of one gateway
  stn,        \* len(g.in), 0 while Start is not called
  stctx,      \* the context passed to Start is cancelled
  stcancel,   \* Start's own cancel() was called
  sterrch,    \* errch
  stpc,       \* Start: "idle" | "recv" | "returned"
  stret,      \* Start's return value
  strun,      \* per porthole, its runner: "none" | "listen" | "select" | "done"
  sterr,      \* per porthole: what its Listen returned
  stwatch     \* the context watcher: "none" | "wait" | "send" | "done"

pvars == <<pctx, lpc, i, lerr, lret, tlong, calls, longs, streak,
           mpc, merr, cctx, conn, closes, errch, cpc, ar, buf, n, readOK, written>>

svars == <<ports, mainPc, ctx, shutdown, wg, sigs, sigq, hpc, dpc, wpc,
           gpc, gcancel, gerrch, gret, gwatch, runner, rerr, first>>

bvars == <<bo, retry, bpc, rmax, rn, delay>>

\* the variables of the functions that are modelled on their own
strvars == <<fwd, shown>>

gwvars == <<ccfg, arrays, addrs, urls, gw, gwpc, built>>

cfvars == <<directive, hargs, pbk, hb, seen, kpc, kerr>>

sigvars == <<sigch, sclosed, spanic, odone, omu, dcall, dbegun, waiter, fnruns>>

\* the variables of the goroutine groups that are modelled on their own
startvars == <<stn, stctx, stcancel, sterrch, stpc, stret, strun, sterr, stwatch>>

cvars == <<sigvars, startvars>>

fvars == <<bvars, strvars, gwvars, cfvars, cvars>>

vars == <<pvars, svars, fvars>>

Gateways == 1..MaxGateways
Portholes == 1..MaxPortholes

\* nothing was sent on errch yet
NoSend == [from |-> 0, err |-> Nil]

\* the supervisor layer before main starts anything, for the configuration cfg
SysStart(cfg) ==
  /\ ports = cfg
  /\ mainPc = "spawn"
  /\ ctx = FALSE
  /\ shutdown = FALSE
  /\ wg = 0
  /\ sigs = 0
  /\ sigq = 0
  /\ hpc = "recv"
  /\ dpc = "wait"
  /\ wpc = "none"
  /\ gpc = [g \in Gateways |-> "idle"]
  /\ gcancel = [g \in Gateways |-> FALSE]
  /\ gerrch = [g \in Gateways |-> <<>>]
  /\ gret = [g \in Gateways |-> Nil]
  /\ gwatch = [g \in Gateways |-> "none"]
  /\ runner = [g \in Gateways |-> [p \in Portholes |-> "none"]]
  /\ rerr = [g \in Gateways |-> [p \in Portholes |-> Nil]]
  /\ first = [g \in Gateways |-> NoSend]

\* the porthole layer before Listen is called
PortholeStart ==
  /\ pctx = FALSE
  /\ lpc = "bind"
  /\ i = 1
  /\ lerr = Nil
  /\ lret = Nil
  /\ tlong = FALSE
  /\ calls = 0
  /\ longs = 0
  /\ streak = 0
  /\ mpc = "idle"
  /\ merr = Nil
  /\ cctx = FALSE
  /\ conn = "none"
  /\ closes = 0
  /\ errch = <<>>
  /\ cpc = "none"
  /\ ar = <<>>
  /\ buf = ZeroBuf
  /\ n = 0
  /\ readOK = <<>>
  /\ written = <<>>

\* backoff.backoff is not being called
BackoffIdle ==
  /\ bo = <<>>
  /\ retry = 0
  /\ bpc = "idle"
  /\ rmax = 0
  /\ rn = 0
  /\ delay = 0

\* none of the functions modelled on their own is being called
\* gateway.String is not being called
StringIdle ==
  /\ fwd = <<>>
  /\ shown = <<>>

\* a PortConfig with zero fields; a slice is its backing array and its length
ZeroConfig == [Listen |-> [array |-> 0, len |-> 0], Forward |-> 0, ReadTimeout |-> 0]

\* newGateway is not being called
GatewayIdle ==
  /\ ccfg = ZeroConfig
  /\ arrays = <<>>
  /\ addrs = <<>>
  /\ urls = <<>>
  /\ gw = [cfg |-> ZeroConfig, in |-> <<>>]
  /\ gwpc = "idle"
  /\ built = <<>>

\* var DefaultBackoff (durations in seconds, ExpScale in halves)
DefaultBackoff ==
  [Interval |-> 15, Factor |-> 1, Grow |-> 1, Min |-> 7, Max |-> 180,
   MaxExp |-> 20, ExpM |-> 1, ExpScale |-> 3]

\* handleBackoff is not being called
ConfigIdle ==
  /\ directive = <<>>
  /\ hargs = <<>>
  /\ pbk = DefaultBackoff
  /\ hb = DefaultBackoff
  /\ seen = {}
  /\ kpc = "idle"
  /\ kerr = "nil"

\* the callers of the BroadcastFunc: the signal handler and the failure watcher
Callers == {"handler", "watcher"}

\* the waiters on the Signal, by the method that waits
Waiters == {"Wait", "AfterFunc", "DelayFunc"}

\* mksignal, lines 87-93: the channel is open, once is unused; nobody has called, all wait
SignalStart ==
  /\ sigch = "open"
  /\ sclosed = 0
  /\ spanic = FALSE
  /\ odone = FALSE
  /\ omu = "none"
  /\ dcall = [c \in Callers |-> "idle"]
  /\ dbegun = [c \in Callers |-> 0]
  /\ waiter = [w \in Waiters |-> "wait"]
  /\ fnruns = [w \in Waiters |-> 0]

\* the portholes of the gateway whose Start is modelled on its own
Runners == 1..MaxRunners

\* gateway.Start is not being called
StartIdle ==
  /\ stn = 0
  /\ stctx = FALSE
  /\ stcancel = FALSE
  /\ sterrch = <<>>
  /\ stpc = "idle"
  /\ stret = Nil
  /\ strun = [p \in Runners |-> "none"]
  /\ sterr = [p \in Runners |-> Nil]
  /\ stwatch = "none"

\* none of the goroutine groups modelled on their own moves
PiecesIdle == SignalStart /\ StartIdle

FunctionsIdle == BackoffIdle /\ StringIdle /\ GatewayIdle /\ ConfigIdle /\ PiecesIdle

\* porthole layer: Listen is about to run; nothing of the supervisor layer moves
Init ==
  /\ PortholeStart
  /\ SysStart(<<>>)
  /\ FunctionsIdle

(***************************************************************************)
(* The environment cancels the context passed to Listen.                   *)
(***************************************************************************)
Cancel ==
  /\ ~pctx
  /\ lpc # "done"
  /\ pctx' = TRUE
  /\ UNCHANGED <<svars, fvars, merr, lpc, i, lerr, lret, tlong, calls, longs, streak,
                 mpc, cctx, conn, closes, errch, cpc, ar, buf, n, readOK, written>>

(***************************************************************************)
(* porthole.listen                                                         *)
(***************************************************************************)
\* a context that is not derived from the parent
ChildDetached == cctx

\* listen's ctx after context.WithCancel(ctx): done when the parent is, or on cancel()
ChildDone == pctx \/ cctx

\* whether the call that now returns lasted more than a minute
Elapsed == {FALSE} \cup (IF longs < MaxLong THEN {TRUE} ELSE {})

\* listen returns e to Listen (line 147), the call having lasted long or not
Returned(e, long) ==
  /\ lerr' = e
  /\ tlong' = long
  /\ lpc' = "check"
  /\ longs' = IF long THEN longs + 1 ELSE longs
  /\ streak' = IF IsCleanClose(e) THEN streak ELSE IF long THEN 0 ELSE streak + 1

\* a new listen call: the state of its locals
Fresh ==
  /\ calls' = calls + 1
  /\ errch' = <<>>
  /\ buf' = ZeroBuf
  /\ n' = 0
  /\ readOK' = <<>>
  /\ written' = <<>>
  /\ closes' = 0
  /\ ar' = <<>>
  /\ merr' = Nil

\* the closer of the previous bind has run: the rebind wait is 2 s and more
PreviousBindOver == cpc \in {"none", "done"} /\ ar = <<>>

\* listen, lines 43-45: the context is already cancelled
ListenCancelled ==
  /\ lpc = "bind"
  /\ PreviousBindOver
  /\ pctx
  /\ Fresh
  /\ Returned(Canceled, FALSE)
  /\ conn' = "none"
  /\ UNCHANGED <<svars, fvars, pctx, i, lret, mpc, cctx, cpc>>

\* listen, lines 43-46: the context is not cancelled when listen looks at it
\* (Listen's err and t are dead until the call returns: they read Nil, FALSE)
ListenEnter ==
  /\ lpc = "bind"
  /\ PreviousBindOver
  /\ ~pctx
  /\ Fresh
  /\ lpc' = "resolve"
  /\ conn' = "none"
  /\ lerr' = Nil
  /\ tlong' = FALSE
  /\ UNCHANGED <<svars, fvars, pctx, i, lret, longs, streak, mpc, cctx, cpc>>

\* listen, lines 47-55: Resolve or ListenUDP fails (within the minute)
ListenBindFail ==
  /\ lpc = "resolve"
  /\ \E kind \in {"resolve", "listen"} : Returned(<<kind, calls>>, FALSE)
  /\ UNCHANGED <<svars, fvars, merr, pctx, i, lret, calls, mpc, cctx, conn, closes,
                 errch, cpc, ar, buf, n, readOK, written>>

\* listen, lines 47-84: the socket is bound, the closer goroutine started
ListenBound ==
  /\ lpc = "resolve"
  /\ lpc' = "listen"
  /\ conn' = "open"
  /\ cctx' = FALSE
  /\ cpc' = "wait"
  /\ mpc' = "loop"
  /\ UNCHANGED <<svars, fvars, merr, pctx, i, lerr, lret, tlong, calls, longs, streak,
                 closes, errch, ar, buf, n, readOK, written>>

\* a closer that goes on to close the socket without sending the context's error
CloserSilent ==
  /\ cpc = "wait"
  /\ ChildDone
  /\ cpc' = "close"
  /\ UNCHANGED <<svars, fvars, merr, pctx, lpc, i, lerr, lret, tlong, calls, longs, streak,
                 mpc, cctx, conn, closes, errch, ar, buf, n, readOK, written>>

\* the closer goroutine, lines 77-78: <-ctx.Done(); errch <- result{err: ctx.Err()}
CloserSend ==
  /\ cpc = "wait"
  /\ ChildDone
  /\ Len(errch) < ResultCap
  /\ errch' = Append(errch, [n |-> 0, err |-> Canceled])
  /\ cpc' = "close"
  /\ UNCHANGED <<svars, fvars, merr, pctx, lpc, i, lerr, lret, tlong, calls, longs, streak,
                 mpc, cctx, conn, closes, ar, buf, n, readOK, written>>

\* a closer that ends without closing the socket
CloserSkipsClose ==
  /\ cpc = "close"
  /\ cpc' = "done"
  /\ UNCHANGED <<svars, fvars, merr, pctx, lpc, i, lerr, lret, tlong, calls, longs,
                 streak, mpc, cctx, conn, closes, errch, ar, buf, n, readOK, written>>

\* the closer goroutine, line 80: conn.Close()
CloserClose ==
  /\ cpc = "close"
  /\ conn' = "closed"
  /\ closes' = closes + 1
  /\ cpc' = "done"
  /\ UNCHANGED <<svars, fvars, merr, pctx, lpc, i, lerr, lret, tlong, calls, longs, streak,
                 mpc, cctx, errch, ar, buf, n, readOK, written>>

\* a goroutine that stays
WithoutNone(s, k) == s

\* ar without its k-th goroutine
Without(s, k) == [j \in 1..(Len(s) - 1) |-> IF j < k THEN s[j] ELSE s[j + 1]]

\* read, line 100: go asyncRead(dst)
ReadSpawn ==
  /\ mpc = "loop"
  /\ ar' = Append(ar, [st |-> "read", n |-> 0, err |-> Nil])
  /\ mpc' = "recv"
  /\ UNCHANGED <<svars, fvars, merr, pctx, lpc, i, lerr, lret, tlong, calls, longs, streak,
                 cctx, conn, closes, errch, cpc, buf, n, readOK, written>>

\* asyncRead, lines 87-95: ReadFromUDP returns a datagram
AsyncReadData(k) ==
  /\ ar[k].st = "read"
  /\ conn = "open"
  /\ Len(readOK) < MaxReads
  /\ \E d \in Datagrams :
       /\ buf' = CopyInto(buf, d)
       /\ readOK' = Append(readOK, d)
       /\ ar' = [ar EXCEPT ![k] = [st |-> "send", n |-> Len(d), err |-> Nil]]
  /\ UNCHANGED <<svars, fvars, merr, pctx, lpc, i, lerr, lret, tlong, calls, longs, streak,
                 mpc, cctx, conn, closes, errch, cpc, n, written>>

\* the errors ReadFromUDP has on an open socket
ReadErrorKinds == {"temp", "neterr", "other"}

\* asyncRead, lines 87-95: ReadFromUDP fails on the open socket (the expiry of
\* the deadline set from p.rdtimeout is a temporary error)
AsyncReadError(k) ==
  /\ ar[k].st = "read"
  /\ conn = "open"
  /\ \E kind \in ReadErrorKinds :
       ar' = [ar EXCEPT ![k] = [st |-> "send", n |-> 0, err |-> <<kind, calls>>]]
  /\ UNCHANGED <<svars, fvars, merr, pctx, lpc, i, lerr, lret, tlong, calls, longs, streak,
                 mpc, cctx, conn, closes, errch, cpc, buf, n, readOK, written>>

\* asyncRead, lines 87-95: SetReadDeadline or ReadFromUDP on the closed socket
AsyncReadClosed(k) ==
  /\ ar[k].st = "read"
  /\ conn = "closed"
  /\ ar' = [ar EXCEPT ![k] = [st |-> "send", n |-> 0, err |-> <<"closed", calls>>]]
  /\ UNCHANGED <<svars, fvars, merr, pctx, lpc, i, lerr, lret, tlong, calls, longs, streak,
                 mpc, cctx, conn, closes, errch, cpc, buf, n, readOK, written>>

\* asyncRead, lines 89 and 96: errch <- res, and the goroutine ends
AsyncSend(k) ==
  /\ ar[k].st = "send"
  /\ Len(errch) < ResultCap
  /\ errch' = Append(errch, [n |-> ar[k].n, err |-> ar[k].err])
  /\ ar' = Without(ar, k)
  /\ UNCHANGED <<svars, fvars, merr, pctx, lpc, i, lerr, lret, tlong, calls, longs, streak,
                 mpc, cctx, conn, closes, cpc, buf, n, readOK, written>>

\* listen returns e from its read loop: the deferred cancel() runs
LoopReturn(e) ==
  /\ \E long \in (IF IsCleanClose(e) THEN {FALSE} ELSE Elapsed) : Returned(e, long)
  /\ mpc' = "idle"
  /\ cctx' = TRUE

\* the read loop, lines 101-125: r := <-errch and the switch on its error
ReadRecv ==
  /\ mpc = "recv"
  /\ errch # <<>>
  /\ LET r == Head(errch) IN
       /\ errch' = Tail(errch)
       /\ n' = r.n
       /\ merr' = r.err
       /\ IF Kind(r.err) = "canceled"
          THEN /\ LoopReturn(r.err)
               /\ UNCHANGED buf
          ELSE IF Kind(r.err) = "nil"
          THEN /\ mpc' = "write"
               /\ UNCHANGED <<buf, lpc, lerr, tlong, longs, streak, cctx>>
          ELSE IF IsNetError(r.err) /\ Temporary(r.err)
          THEN /\ buf' = memclr(buf, r.n)
               /\ mpc' = "loop"
               /\ UNCHANGED <<lpc, lerr, tlong, longs, streak, cctx>>
          ELSE /\ buf' = memclr(buf, r.n)
               /\ LoopReturn(r.err)
  /\ UNCHANGED <<svars, fvars, pctx, i, lret, calls, conn, closes, cpc, ar, readOK, written>>

\* the read loop, lines 127-131: proxy.Write(block) succeeds, memclr(block)
WriteOK ==
  /\ mpc = "write"
  /\ written' = Append(written, Block(buf, n))
  /\ buf' = memclr(buf, n)
  /\ mpc' = "loop"
  /\ UNCHANGED <<svars, fvars, merr, pctx, lpc, i, lerr, lret, tlong, calls, longs, streak,
                 cctx, conn, closes, errch, cpc, ar, n, readOK>>

\* the read loop, lines 127-129: proxy.Write(block) fails
WriteFail ==
  /\ mpc = "write"
  /\ written' = Append(written, Block(buf, n))
  /\ merr' = <<"write", calls>>
  /\ LoopReturn(<<"write", calls>>)
  /\ UNCHANGED <<svars, fvars, pctx, i, lret, calls, conn, closes, errch, cpc, ar,
                 buf, n, readOK>>

(***************************************************************************)
(* porthole.Listen                                                         *)
(***************************************************************************)
\* a loop that runs once more
LoopContinuesOnceMore(k) == k <= Retries + 1

\* for i := 1; i <= retries; i++
LoopContinues(k) == k <= Retries

\* else if i == retries
LastAttempt(k) == k = Retries

\* Listen returns e
ListenReturn(e) ==
  /\ lret' = e
  /\ lpc' = "done"

\* Listen, lines 148-169: what follows a listen call
Check ==
  /\ lpc = "check"
  /\ IF IsCleanClose(lerr)
     THEN ListenReturn(lerr) /\ UNCHANGED i
     ELSE IF ~IsListenOpError(lerr) /\ LastAttempt(i)
     THEN ListenReturn(lerr) /\ UNCHANGED i
     ELSE /\ i' = IF tlong THEN 1 ELSE i
          /\ lpc' = "wait"
          /\ UNCHANGED lret
  /\ UNCHANGED <<svars, fvars, merr, pctx, lerr, tlong, calls, longs, streak,
                 mpc, cctx, conn, closes, errch, cpc, ar, buf, n, readOK, written>>

\* a timer that is ready whatever the context
TimerAnyway == TRUE

\* case <-time.After(wait) is taken: the wait, 2 s and more, has passed and
\* the context was not done before
TimerFirst == ~pctx

\* Listen, line 172 and the loop's i++: the wait is over
WaitTimer ==
  /\ lpc = "wait"
  /\ TimerFirst
  /\ i' = i + 1
  /\ IF LoopContinues(i + 1)
     THEN lpc' = "bind" /\ UNCHANGED lret
     ELSE ListenReturn(lerr)
  /\ UNCHANGED <<svars, fvars, merr, pctx, lerr, tlong, calls, longs, streak,
                 mpc, cctx, conn, closes, errch, cpc, ar, buf, n, readOK, written>>

\* Listen, lines 173-174: the context is cancelled during the wait
WaitCancelled ==
  /\ lpc = "wait"
  /\ pctx
  /\ ListenReturn(Canceled)
  /\ UNCHANGED <<svars, fvars, merr, pctx, i, lerr, tlong, calls, longs, streak,
                 mpc, cctx, conn, closes, errch, cpc, ar, buf, n, readOK, written>>

ListenThread ==
  \/ ListenCancelled \/ ListenEnter \/ ListenBindFail \/ ListenBound
  \/ ReadSpawn \/ ReadRecv \/ WriteOK \/ WriteFail
  \/ Check \/ WaitTimer \/ WaitCancelled

Next ==
  \/ Cancel
  \/ ListenCancelled
  \/ ListenEnter
  \/ ListenBindFail
  \/ ListenBound
  \/ CloserSend
  \/ CloserClose
  \/ ReadSpawn
  \/ \E k \in DOMAIN ar : AsyncReadData(k)
  \/ \E k \in DOMAIN ar : AsyncReadError(k)
  \/ \E k \in DOMAIN ar : AsyncReadClosed(k)
  \/ \E k \in DOMAIN ar : AsyncSend(k)
  \/ ReadRecv
  \/ WriteOK
  \/ WriteFail
  \/ Check
  \/ WaitTimer
  \/ WaitCancelled

Spec == Init /\ [][Next]_vars

(***************************************************************************)
(* Fairness.  Every goroutine of the program that can take a step takes    *)
(* one.  The environment owes nothing: no datagram need arrive, no read    *)
(* on an open socket need fail, the context need not be cancelled.  A read *)
(* on a closed socket returns and proxy.Write returns.  A goroutine        *)
(* blocked in a send is served when the channel has room (Go queues        *)
(* blocked senders first come, first served), hence the strong fairness    *)
(* of the closer's send, which competes with asyncRead's.                  *)
(***************************************************************************)
Fairness ==
  /\ WF_vars(ListenThread)
  /\ SF_vars(CloserSend)
  /\ WF_vars(CloserClose)
  /\ WF_vars(\E k \in DOMAIN ar : AsyncReadClosed(k))
  /\ WF_vars(\E k \in DOMAIN ar : AsyncSend(k))

FairSpec == Spec /\ Fairness

(***************************************************************************)
(* The supervisor layer: main, runGateway, gateway.Start.                  *)
(***************************************************************************)
RECURSIVE Sum(_)
Sum(s) == IF s = <<>> THEN 0 ELSE Head(s) + Sum(Tail(s))

\* the configurations: 1..MaxGateways ports with at least one listen address each,
\* MaxPortholes addresses at most in all
Configs ==
  {cfg \in UNION {[1..k -> Portholes] : k \in 1..MaxGateways} : Sum(cfg) <= MaxPortholes}

\* supervisor layer: main is about to start the gateways of some configuration
\* (the signal handler has called signal.Notify); no porthole-layer step is taken
SysInit ==
  /\ PortholeStart
  /\ \E cfg \in Configs : SysStart(cfg)
  /\ FunctionsIdle

\* the process lives until main returns
Running == mainPc # "returned"

Configured(g) == g <= Len(ports)

\* g.Start has returned to runGateway
StartReturned(g) == gpc[g] \in {"wgdone", "rcancel", "done"}

\* the context gateway g's Start derives from main's: done when main's is, or on its cancel()
GwDone(g) == ctx \/ gcancel[g]

\* the history of errch's first send, after a send of e by sender
FirstSend(f, sender, e) == IF f = NoSend THEN [from |-> sender, err |-> e] ELSE f

\* the environment sends SIGINT; Notify drops it when the channel is full
Sigint ==
  /\ Running
  /\ sigs < MaxSigints
  /\ sigs' = sigs + 1
  /\ sigq' = IF sigq < SignalCap THEN sigq + 1 ELSE sigq
  /\ UNCHANGED <<pvars, fvars, ports, mainPc, ctx, shutdown, wg, hpc, dpc, wpc,
                 gpc, gcancel, gerrch, gret, gwatch, runner, rerr, first>>

\* the signal handler, lines 149-151: a signal is received, die()
HandlerDie ==
  /\ Running
  /\ hpc = "recv"
  /\ sigq > 0
  /\ sigq' = sigq - 1
  /\ shutdown' = TRUE
  /\ hpc' = "cancel"
  /\ UNCHANGED <<pvars, fvars, ports, mainPc, ctx, wg, sigs, dpc, wpc,
                 gpc, gcancel, gerrch, gret, gwatch, runner, rerr, first>>

\* the signal handler, line 152: cancel()
HandlerCancel ==
  /\ Running
  /\ hpc = "cancel"
  /\ ctx' = TRUE
  /\ hpc' = "recv"
  /\ UNCHANGED <<pvars, fvars, ports, mainPc, shutdown, wg, sigs, sigq, dpc, wpc,
                 gpc, gcancel, gerrch, gret, gwatch, runner, rerr, first>>

\* SHUTDOWN.DelayFunc(time.Second, cancel): s.Wait() and then time.Sleep(d) return
DelaySleep ==
  /\ Running
  /\ dpc = "wait"
  /\ shutdown
  /\ dpc' = "cancel"
  /\ UNCHANGED <<pvars, fvars, ports, mainPc, ctx, shutdown, wg, sigs, sigq, hpc, wpc,
                 gpc, gcancel, gerrch, gret, gwatch, runner, rerr, first>>

\* SHUTDOWN.DelayFunc(time.Second, cancel): fn()
DelayCancel ==
  /\ Running
  /\ dpc = "cancel"
  /\ ctx' = TRUE
  /\ dpc' = "done"
  /\ UNCHANGED <<pvars, fvars, ports, mainPc, shutdown, wg, sigs, sigq, hpc, wpc,
                 gpc, gcancel, gerrch, gret, gwatch, runner, rerr, first>>

\* main, lines 170-200: wg.Add, go runGateway(g) for every gateway, go the watcher.
\* A gateway's goroutine is taken up to Start's <-errch (part_003, lines 50-69):
\* its child context, errch, a runner per porthole and its context watcher exist.
MainSpawn ==
  /\ mainPc = "spawn"
  /\ wg' = Len(ports)
  /\ gpc' = [g \in Gateways |-> IF Configured(g) THEN "recv" ELSE "idle"]
  /\ gwatch' = [g \in Gateways |-> IF Configured(g) THEN "wait" ELSE "none"]
  /\ runner' = [g \in Gateways |-> [p \in Portholes |->
                  IF Configured(g) /\ p <= ports[g] THEN "listen" ELSE "none"]]
  /\ wpc' = "select"
  /\ mainPc' = "shutdown"
  /\ UNCHANGED <<pvars, fvars, ports, ctx, shutdown, sigs, sigq, hpc, dpc,
                 gcancel, gerrch, gret, rerr, first>>

\* main, line 202: <-SHUTDOWN
MainShutdown ==
  /\ mainPc = "shutdown"
  /\ shutdown
  /\ mainPc' = "wgwait"
  /\ UNCHANGED <<pvars, fvars, ports, ctx, shutdown, wg, sigs, sigq, hpc, dpc, wpc,
                 gpc, gcancel, gerrch, gret, gwatch, runner, rerr, first>>

\* a main that does not wait for the gateways
WgNoWait == TRUE

\* wg.Wait() returns
WgWaitOver == wg = 0

\* main, lines 203-204: wg.Wait(), return, the deferred cancel()
MainReturn ==
  /\ mainPc = "wgwait"
  /\ WgWaitOver
  /\ mainPc' = "returned"
  /\ ctx' = TRUE
  /\ UNCHANGED <<pvars, fvars, ports, shutdown, wg, sigs, sigq, hpc, dpc, wpc,
                 gpc, gcancel, gerrch, gret, gwatch, runner, rerr, first>>

\* a watcher without its ctx.Done() case
WatcherCtxCaseMissing == FALSE

\* the watcher, line 194: case <-ctx.Done()
WatcherCtxCase == ctx

\* the watcher, lines 193-199: ctx.Done() is chosen, the fatal error is logged, die()
WatchCtx ==
  /\ Running
  /\ wpc = "select"
  /\ WatcherCtxCase
  /\ shutdown' = TRUE
  /\ wpc' = "fatal"
  /\ UNCHANGED <<pvars, fvars, ports, mainPc, ctx, wg, sigs, sigq, hpc, dpc,
                 gpc, gcancel, gerrch, gret, gwatch, runner, rerr, first>>

\* the watcher, lines 195-196: SHUTDOWN is chosen
WatchShutdown ==
  /\ Running
  /\ wpc = "select"
  /\ shutdown
  /\ wpc' = "done"
  /\ UNCHANGED <<pvars, fvars, ports, mainPc, ctx, shutdown, wg, sigs, sigq, hpc, dpc,
                 gpc, gcancel, gerrch, gret, gwatch, runner, rerr, first>>

\* a runner, line 59: p.Listen(ctx) returns the error of a failed porthole
RunnerListenFails(g, p) ==
  /\ Running
  /\ runner[g][p] = "listen"
  /\ rerr' = [rerr EXCEPT ![g][p] = <<"neterr", p>>]
  /\ runner' = [runner EXCEPT ![g][p] = "select"]
  /\ UNCHANGED <<pvars, fvars, ports, mainPc, ctx, shutdown, wg, sigs, sigq, hpc, dpc, wpc,
                 gpc, gcancel, gerrch, gret, gwatch, first>>

\* a runner, line 59: p.Listen(ctx) returns the error of the cancelled context
RunnerListenCancelled(g, p) ==
  /\ Running
  /\ runner[g][p] = "listen"
  /\ GwDone(g)
  /\ rerr' = [rerr EXCEPT ![g][p] = Canceled]
  /\ runner' = [runner EXCEPT ![g][p] = "select"]
  /\ UNCHANGED <<pvars, fvars, ports, mainPc, ctx, shutdown, wg, sigs, sigq, hpc, dpc, wpc,
                 gpc, gcancel, gerrch, gret, gwatch, first>>

\* a runner, line 61: case <-ctx.Done()
RunnerSelectDone(g, p) ==
  /\ Running
  /\ runner[g][p] = "select"
  /\ GwDone(g)
  /\ runner' = [runner EXCEPT ![g][p] = "done"]
  /\ UNCHANGED <<pvars, fvars, ports, mainPc, ctx, shutdown, wg, sigs, sigq, hpc, dpc, wpc,
                 gpc, gcancel, gerrch, gret, gwatch, rerr, first>>

\* a runner, line 62: case errch <- err
RunnerSelectSend(g, p) ==
  /\ Running
  /\ runner[g][p] = "select"
  /\ Len(gerrch[g]) < ErrorCap
  /\ gerrch' = [gerrch EXCEPT ![g] = Append(@, rerr[g][p])]
  /\ first' = [first EXCEPT ![g] = FirstSend(@, p, rerr[g][p])]
  /\ runner' = [runner EXCEPT ![g][p] = "done"]
  /\ UNCHANGED <<pvars, fvars, ports, mainPc, ctx, shutdown, wg, sigs, sigq, hpc, dpc, wpc,
                 gpc, gcancel, gret, gwatch, rerr>>

\* Start's watcher, line 67: <-ctx.Done(); errch <- ctx.Err()
GwWatchSend(g) ==
  /\ Running
  /\ gwatch[g] = "wait"
  /\ GwDone(g)
  /\ Len(gerrch[g]) < ErrorCap
  /\ gerrch' = [gerrch EXCEPT ![g] = Append(@, Canceled)]
  /\ first' = [first EXCEPT ![g] = FirstSend(@, 0, Canceled)]
  /\ gwatch' = [gwatch EXCEPT ![g] = "done"]
  /\ UNCHANGED <<pvars, fvars, ports, mainPc, ctx, shutdown, wg, sigs, sigq, hpc, dpc, wpc,
                 gpc, gcancel, gret, runner, rerr>>

\* a receive that takes the newest value
ReceivedNewest(ch) == ch[Len(ch)]

\* <-errch: the oldest value of the channel
Received(ch) == Head(ch)

\* Start, lines 51 and 69: <-errch, the deferred cancel(), Start returns to runGateway
GwReturn(g) ==
  /\ Running
  /\ gpc[g] = "recv"
  /\ gerrch[g] # <<>>
  /\ gret' = [gret EXCEPT ![g] = Received(gerrch[g])]
  /\ gerrch' = [gerrch EXCEPT ![g] = Tail(@)]
  /\ gcancel' = [gcancel EXCEPT ![g] = TRUE]
  /\ gpc' = [gpc EXCEPT ![g] = "wgdone"]
  /\ UNCHANGED <<pvars, fvars, ports, mainPc, ctx, shutdown, wg, sigs, sigq, hpc, dpc, wpc,
                 gwatch, runner, rerr, first>>

\* runGateway, line 175: the deferred wg.Done()
RunGatewayDone(g) ==
  /\ Running
  /\ gpc[g] = "wgdone"
  /\ wg' = wg - 1
  /\ gpc' = [gpc EXCEPT ![g] = "rcancel"]
  /\ UNCHANGED <<pvars, fvars, ports, mainPc, ctx, shutdown, sigs, sigq, hpc, dpc, wpc,
                 gcancel, gerrch, gret, gwatch, runner, rerr, first>>

\* runGateway, line 174: the deferred cancel()
RunGatewayCancel(g) ==
  /\ Running
  /\ gpc[g] = "rcancel"
  /\ ctx' = TRUE
  /\ gpc' = [gpc EXCEPT ![g] = "done"]
  /\ UNCHANGED <<pvars, fvars, ports, mainPc, shutdown, wg, sigs, sigq, hpc, dpc, wpc,
                 gcancel, gerrch, gret, gwatch, runner, rerr, first>>

\* the steps of the program's goroutines (not the environment's)
SysProgram ==
  \/ HandlerDie \/ HandlerCancel
  \/ DelaySleep \/ DelayCancel
  \/ MainSpawn \/ MainShutdown \/ MainReturn
  \/ WatchCtx \/ WatchShutdown
  \/ \E g \in Gateways :
       \/ GwWatchSend(g) \/ GwReturn(g)
       \/ RunGatewayDone(g) \/ RunGatewayCancel(g)
       \/ \E p \in Portholes :
            \/ RunnerListenCancelled(g, p)
            \/ RunnerSelectDone(g, p)
            \/ RunnerSelectSend(g, p)

SysNext ==
  \/ Sigint
  \/ HandlerDie
  \/ HandlerCancel
  \/ DelaySleep
  \/ DelayCancel
  \/ MainSpawn
  \/ MainShutdown
  \/ MainReturn
  \/ WatchCtx
  \/ WatchShutdown
  \/ \E g \in Gateways, p \in Portholes : RunnerListenFails(g, p)
  \/ \E g \in Gateways, p \in Portholes : RunnerListenCancelled(g, p)
  \/ \E g \in Gateways, p \in Portholes : RunnerSelectDone(g, p)
  \/ \E g \in Gateways, p \in Portholes : RunnerSelectSend(g, p)
  \/ \E g \in Gateways : GwWatchSend(g)
  \/ \E g \in Gateways : GwReturn(g)
  \/ \E g \in Gateways : RunGatewayDone(g)
  \/ \E g \in Gateways : RunGatewayCancel(g)

SysSpec == SysInit /\ [][SysNext]_vars

(***************************************************************************)
(* Fairness of the supervisor layer.  While the process lives, a goroutine *)
(* of the program that can take a step takes one: time.Sleep returns, and  *)
(* a Listen whose context is cancelled returns (C4).  No program step      *)
(* leads back to an earlier state of its goroutine except the handler's    *)
(* loop, which a SIGINT drives; the environment owes no SIGINT and no      *)
(* porthole failure.                                                       *)
(***************************************************************************)
SysFairSpec == SysSpec /\ WF_vars(SysProgram)

(***************************************************************************)
(* backoff.backoff and backoff.randfactor (BackoffSpec).                   *)
(*                                                                         *)
(* Durations are whole numbers of a time unit; the float64 parameters are  *)
(* whole numbers too, except ExpScale, which is counted in halves (3 is    *)
(* the default 1.5).  randfactor's quotient is kept exact, as a pair of    *)
(* numerator and denominator, up to the conversion time.Duration(...),     *)
(* which truncates.  The values are small: no float64 becomes infinite     *)
(* and no int64 overflows.                                                 *)
(***************************************************************************)
\* the backoff parameters the calls are made with
Backoffs ==
  [Interval : {-1, 2}, Factor : {0, 1}, Grow : {0, 1}, Min : {0, 1},
   Max : {0, 3}, MaxExp : {0, 1, 61}, ExpM : {0, 1}, ExpScale : {0, 3}]

\* backoff.Check: the message of the error it returns, "nil" for none
CheckBackoff(bk) ==
  IF bk.Factor < 1 THEN "factor must be > 1"
  ELSE IF bk.Grow < 0 THEN "grow must be >= 0s"
  ELSE IF bk.Min < 0 THEN "min must be >= 0s"
  ELSE IF bk.Max < bk.Min THEN "max must be >= min"
  ELSE IF bk.MaxExp <= 0 \/ bk.MaxExp > 60 THEN "max-exp must be > 0 and <= 60"
  ELSE IF bk.ExpM < 0 THEN "exp-m must be >= 0"
  ELSE IF bk.ExpScale < 0 THEN "exp-y must be >= 0"
  ELSE "nil"

\* x << k
Lsh(x, k) == x * 2^k

\* randfactor, lines 49-56: retry after the two ifs
EffectiveRetry(bk, r) ==
  LET maxex == IF bk.MaxExp <= 0 \/ bk.MaxExp > 60 THEN 60 ELSE bk.MaxExp
  IN  IF r > maxex THEN maxex ELSE r

\* big.NewInt(128 + 1<<uint(retry))
RandBase(r) == 128 + Lsh(1, r)

\* a bound that keeps the unshifted max as a term
RandMaxWithBase(r) == RandBase(r) + Lsh(RandBase(r), r - 1) + 128

\* randfactor, lines 58-59: max.Lsh(max, retry-1) shifts max itself, and
\* max.Add(max, 128) adds 128 to the shifted value
RandMax(r) == Lsh(RandBase(r), r - 1) + 128

\* randfactor, lines 66-74: n / (max/4 + ExpM), times ExpScale if that is > 0,
\* as <<numerator, denominator>>
RandQuotient(bk, m, x) ==
  IF bk.ExpScale > 0
  THEN <<4 * x * bk.ExpScale, 2 * (m + 4 * bk.ExpM)>>
  ELSE <<4 * x, m + 4 * bk.ExpM>>

\* time.Duration(f) for the float f = a/b, b > 0: truncation towards zero
Truncated(a, b) == IF a >= 0 THEN a \div b ELSE -((-a) \div b)

\* backoff, line 90: (b.Factor * float64(retry)) * float64(b.Grow)
GrowFactor(bk, r) == (bk.Factor * r) * bk.Grow

\* backoff, lines 94-100
Clamped(bk, next) ==
  IF next < 0 THEN 0
  ELSE IF bk.Min > 0 /\ next < bk.Min THEN bk.Min
  ELSE IF bk.Max > 0 /\ next > bk.Max THEN bk.Max
  ELSE next

\* a call b.backoff(retry, _) is about to be made
BackoffInit ==
  /\ PortholeStart
  /\ SysStart(<<>>)
  /\ PiecesIdle
  /\ bo \in Backoffs
  /\ retry \in 0..MaxRetry
  /\ bpc = "call"
  /\ rmax = 0
  /\ rn = 0
  /\ delay = 0
  /\ StringIdle
  /\ GatewayIdle
  /\ ConfigIdle

\* backoff, lines 85-87: retry < 1
BackoffFirst ==
  /\ bpc = "call"
  /\ retry < 1
  /\ delay' = bo.Min
  /\ bpc' = "done"
  /\ UNCHANGED <<pvars, svars, cvars, strvars, gwvars, cfvars, bo, retry, rmax, rn>>

\* backoff, lines 89-103 with factor <= 0: randfactor is not called
BackoffPlain ==
  /\ bpc = "call"
  /\ retry >= 1
  /\ GrowFactor(bo, retry) <= 0
  /\ delay' = Clamped(bo, bo.Interval)
  /\ bpc' = "done"
  /\ UNCHANGED <<pvars, svars, cvars, strvars, gwvars, cfvars, bo, retry, rmax, rn>>

\* backoff, line 91, and randfactor, lines 45-59: the bound of the draw
RandBound ==
  /\ bpc = "call"
  /\ retry >= 1
  /\ GrowFactor(bo, retry) > 0
  /\ rmax' = RandMax(EffectiveRetry(bo, retry))
  /\ bpc' = "rand"
  /\ UNCHANGED <<pvars, svars, cvars, strvars, gwvars, cfvars, bo, retry, rn, delay>>

\* randfactor, lines 61-81: rand.Int returns some x in [0, max); and backoff,
\* lines 91-103: the delay
RandDraw ==
  /\ bpc = "rand"
  /\ \E x \in 0..(rmax - 1) :
       LET q == RandQuotient(bo, rmax, x)
           next == bo.Interval + Truncated(GrowFactor(bo, retry) * q[1], q[2])
       IN  /\ rn' = x
           /\ delay' = Clamped(bo, next)
  /\ bpc' = "done"
  /\ UNCHANGED <<pvars, svars, cvars, strvars, gwvars, cfvars, bo, retry, rmax>>

BackoffNext ==
  \/ BackoffFirst
  \/ BackoffPlain
  \/ RandBound
  \/ RandDraw

BackoffSpec == BackoffInit /\ [][BackoffNext]_vars

(***************************************************************************)
(* gateway.String (StringSpec).                                            *)
(*                                                                         *)
(* A URL is its userinfo, its host and its query; the query is a sequence  *)
(* of well-formed <<key, value>> pairs.  A string is the sequence of its   *)
(* parts.                                                                  *)
(***************************************************************************)
\* u.User == nil
NoUser == <<>>

\* the keys of the query parameters, in the order of sort.Strings
KeyOrder == <<"a", "db", "p", "u">>

\* a Del that deletes nothing
KeptAll(m, key) == m

\* url.Values.Del
Del(m, key) == [k \in DOMAIN m \ {key} |-> m[k]]

\* the values the query q has for key, in their order
RECURSIVE ValuesOf(_, _)
ValuesOf(q, key) ==
  IF q = <<>> THEN <<>>
  ELSE IF Head(q)[1] = key THEN <<Head(q)[2]>> \o ValuesOf(Tail(q), key)
  ELSE ValuesOf(Tail(q), key)

\* url.URL.Query: the values of each key of RawQuery, in their order
Query(q) == [key \in {q[k][1] : k \in DOMAIN q} |-> ValuesOf(q, key)]

\* url.Values.Encode: key by key in sorted order, each key with its values
RECURSIVE EncodeFrom(_, _)
EncodeFrom(m, k) ==
  IF k > Len(KeyOrder) THEN <<>>
  ELSE (IF KeyOrder[k] \in DOMAIN m
        THEN [j \in DOMAIN m[KeyOrder[k]] |-> <<KeyOrder[k], m[KeyOrder[k]][j]>>]
        ELSE <<>>) \o EncodeFrom(m, k + 1)

Encode(m) == EncodeFrom(m, 1)

\* Addr.String
AddrString(a) == <<a.Network, "(", a.Addr, ")">>

\* url.URL.String
UrlString(u) == <<u.User, "@", u.Host, "?", u.RawQuery>>

\* gateway.String for the listen addresses and the forward URL of g.cfg
String(listen, forward) ==
  LET u == [forward EXCEPT !.User = NoUser]
      params == Del(Del(Query(u.RawQuery), "u"), "p")
  IN  <<[k \in DOMAIN listen |-> AddrString(listen[k])], "->",
        UrlString([u EXCEPT !.RawQuery = Encode(params)])>>

\* the forward URLs
ForwardURLs ==
  [User : {NoUser, <<"user", "pw">>, <<"me", "x">>},
   Host : {"host"},
   RawQuery : UNION {[1..k -> {"a", "db", "p", "u"} \X {"foo", "x"}] : k \in 0..MaxParams}]

\* cfg.Listen of the two gateways
ListenOfBoth == <<[Network |-> "udp", Addr |-> ":8089"]>>

CredentialKeys == {"u", "p"}

\* two URLs that differ only in the userinfo and in the values of u and p
SameButCredentials(u, v) ==
  /\ u.Host = v.Host
  /\ Len(u.RawQuery) = Len(v.RawQuery)
  /\ \A k \in DOMAIN u.RawQuery :
       /\ u.RawQuery[k][1] = v.RawQuery[k][1]
       /\ u.RawQuery[k][1] \notin CredentialKeys => u.RawQuery[k][2] = v.RawQuery[k][2]

\* two gateways whose configurations differ only in the forward URL's credentials
StringInit ==
  /\ PortholeStart
  /\ SysStart(<<>>)
  /\ PiecesIdle
  /\ BackoffIdle
  /\ GatewayIdle
  /\ ConfigIdle
  /\ \E u \in ForwardURLs : \E v \in {w \in ForwardURLs : SameButCredentials(u, w)} :
       fwd = <<u, v>>
  /\ shown = <<<<>>, <<>>>>

\* g.String() for the k-th gateway
ShowString(k) ==
  /\ shown[k] = <<>>
  /\ shown' = [shown EXCEPT ![k] = String(ListenOfBoth, fwd[k])]
  /\ UNCHANGED <<pvars, svars, cvars, bvars, gwvars, cfvars, fwd>>

StringNext == \E k \in 1..2 : ShowString(k)

StringSpec == StringInit /\ [][StringNext]_vars

(***************************************************************************)
(* newGateway, newPorthole and the caller's later writes to its PortConfig *)
(* (GatewaySpec).                                                          *)
(*                                                                         *)
(* Pointers are numbers of heap objects.  The caller's PortConfig has      *)
(* parsed addresses (none is nil, so newPorthole does not fail); its       *)
(* Listen slice is backed by array 1, its addresses are the Addr objects   *)
(* 1..len, and one more Addr object exists that the caller may put into    *)
(* the list.  The Addr objects newPorthole allocates follow.               *)
(***************************************************************************)
ListenAddrs == {":8089", ":9000"}

ReadTimeouts == {0, 10}

\* the forward URLs of the configurations handed to newGateway
GatewayURLs == {u \in ForwardURLs : Len(u.RawQuery) = 0}

\* the Addr object the caller may put into its list later
SpareAddr == MaxListen + 1

\* the k-th Addr object newPorthole allocates
AllocatedAddr(k) == MaxListen + 1 + k

UdpAddr(a) == [Network |-> "udp", Addr |-> a]

\* the elements of a slice
Elements(sl) == [k \in 1..sl.len |-> arrays[sl.array][k]]

\* a copy that duplicates nothing the struct points to (*dup = *cfg)
StructCopy(c) == c

\* what is observable through the gateway: the config it stores, its
\* display string and the addresses of its portholes
Observable ==
  LET listen == [k \in 1..gw.cfg.Listen.len |-> addrs[Elements(gw.cfg.Listen)[k]]]
  IN  [cfg |-> [Listen |-> listen,
                Forward |-> urls[gw.cfg.Forward],
                ReadTimeout |-> gw.cfg.ReadTimeout],
       str |-> String(listen, urls[gw.cfg.Forward]),
       holes |-> [k \in DOMAIN gw.in |->
                    [orig |-> addrs[gw.in[k].orig], rdtimeout |-> gw.in[k].rdtimeout]]]

\* main is about to call newGateway(cfg) for a port of its configuration
GatewayInit ==
  /\ PortholeStart
  /\ SysStart(<<>>)
  /\ PiecesIdle
  /\ BackoffIdle
  /\ StringIdle
  /\ ConfigIdle
  /\ \E len \in 1..MaxListen : \E as \in [1..len -> ListenAddrs] :
       /\ ccfg \in [Listen : {[array |-> 1, len |-> len]}, Forward : {1},
                    ReadTimeout : ReadTimeouts]
       /\ arrays = <<[k \in 1..len |-> k]>>
       /\ \E spare \in ListenAddrs :
            addrs = [k \in 1..(2 * MaxListen + 1) |->
                       IF k <= len THEN UdpAddr(as[k])
                       ELSE IF k = SpareAddr THEN UdpAddr(spare)
                       ELSE UdpAddr("")]
  /\ urls \in [{1} -> GatewayURLs]
  /\ gw = [cfg |-> ZeroConfig, in |-> <<>>]
  /\ gwpc = "new"
  /\ built = <<>>

\* newGateway, lines 16-37, with newPorthole, lines 21-34, for every address
NewGateway ==
  /\ gwpc = "new"
  /\ LET listen == Elements(ccfg.Listen)
         holes == [k \in DOMAIN listen |->
                     [orig |-> AllocatedAddr(k), rdtimeout |-> ccfg.ReadTimeout]]
     IN  /\ addrs' = [k \in DOMAIN addrs |->
                        IF \E j \in DOMAIN listen : k = AllocatedAddr(j)
                        THEN addrs[listen[k - MaxListen - 1]]
                        ELSE addrs[k]]
         /\ gw' = [cfg |-> StructCopy(ccfg), in |-> holes]
  /\ gwpc' = "built"
  /\ UNCHANGED <<pvars, svars, cvars, bvars, strvars, cfvars, ccfg, arrays, urls>>
  /\ built' = Observable'

\* the caller: cfg.ReadTimeout = t
SetReadTimeout ==
  /\ gwpc = "built"
  /\ \E t \in ReadTimeouts \ {ccfg.ReadTimeout} :
       ccfg' = [ccfg EXCEPT !.ReadTimeout = t]
  /\ UNCHANGED <<pvars, svars, cvars, bvars, strvars, cfvars, arrays, addrs, urls, gw, gwpc, built>>

\* the caller: cfg.Listen[k] = another *Addr
SetListenElement(k) ==
  /\ gwpc = "built"
  /\ k \in 1..ccfg.Listen.len
  /\ \E a \in {k, SpareAddr} \ {arrays[ccfg.Listen.array][k]} :
       arrays' = [arrays EXCEPT ![ccfg.Listen.array][k] = a]
  /\ UNCHANGED <<pvars, svars, cvars, bvars, strvars, cfvars, ccfg, addrs, urls, gw, gwpc, built>>

\* the caller: cfg.Listen[k].Addr = a
SetListenAddr(k) ==
  /\ gwpc = "built"
  /\ k \in 1..ccfg.Listen.len
  /\ LET obj == arrays[ccfg.Listen.array][k]
     IN  \E a \in ListenAddrs \ {addrs[obj].Addr} :
           addrs' = [addrs EXCEPT ![obj].Addr = a]
  /\ UNCHANGED <<pvars, svars, cvars, bvars, strvars, cfvars, ccfg, arrays, urls, gw, gwpc, built>>

\* the caller: a write to a field of *cfg.Forward
SetForwardField ==
  /\ gwpc = "built"
  /\ \E u \in GatewayURLs \ {urls[ccfg.Forward]} :
       urls' = [urls EXCEPT ![ccfg.Forward] = u]
  /\ UNCHANGED <<pvars, svars, cvars, bvars, strvars, cfvars, ccfg, arrays, addrs, gw, gwpc, built>>

GatewayNext ==
  \/ NewGateway
  \/ SetReadTimeout
  \/ \E k \in 1..MaxListen : SetListenElement(k)
  \/ \E k \in 1..MaxListen : SetListenAddr(k)
  \/ SetForwardField

GatewaySpec == GatewayInit /\ [][GatewayNext]_vars

(***************************************************************************)
(* PortConfig.handleBackoff (ConfigSpec).                                  *)
(*                                                                         *)
(* A parameter of the directive is <<kind, value>>: a duration in seconds, *)
(* a number, or a word.  parseArg accepts a duration for a time.Duration,  *)
(* a number for an int or a float64, and a word equal to the Keyword.      *)
(***************************************************************************)
Tokens ==
  {<<"dur", 30>>, <<"dur", 200>>, <<"num", 2>>, <<"num", 0>>,
   <<"word", "factor">>, <<"word", "min">>, <<"word", "exp-max">>}

\* the cases of the switch, in its order: keyword, field of b, kind of the value
KeywordCases ==
  << <<"factor", "Factor", "num">>,
     <<"grow-by", "Grow", "dur">>,
     <<"min", "Min", "dur">>,
     <<"max", "Max", "dur">>,
     <<"exp-max", "MaxExp", "num">>,
     <<"exp-m", "ExpM", "num">>,
     <<"exp-y", "ExpScale", "num">> >>

\* !seenX && parseArgsUpTo(args, Keyword(x), &b.X) == nil
Matches(c, args, sn) ==
  /\ KeywordCases[c][1] \notin sn
  /\ Len(args) >= 2
  /\ args[1] = <<"word", KeywordCases[c][1]>>
  /\ args[2][1] = KeywordCases[c][3]

\* the value parseArg stores in the field (ExpScale is counted in halves)
Stored(c, tok) == IF KeywordCases[c][2] = "ExpScale" THEN 2 * tok[2] ELSE tok[2]

\* the statement `backoff ...` is about to be handled for a new port
ConfigInit ==
  /\ PortholeStart
  /\ SysStart(<<>>)
  /\ PiecesIdle
  /\ BackoffIdle
  /\ StringIdle
  /\ GatewayIdle
  /\ directive \in UNION {[1..k -> Tokens] : k \in 0..MaxArgs}
  /\ hargs = directive
  /\ pbk = DefaultBackoff
  /\ hb = DefaultBackoff
  /\ seen = {}
  /\ kpc = "interval"
  /\ kerr = "nil"

\* handleBackoff returns e
ConfigReturn(e) ==
  /\ kerr' = e
  /\ kpc' = "done"

\* handleBackoff, lines 161-180: the interval, and b := DefaultBackoff
HandleInterval ==
  /\ kpc = "interval"
  /\ IF Len(hargs) = 0
     THEN /\ ConfigReturn("expected 1 or more arguments")
          /\ UNCHANGED <<hargs, pbk>>
     ELSE IF hargs[1][1] # "dur"
     THEN /\ ConfigReturn("error parsing parameter 1")
          /\ UNCHANGED <<hargs, pbk>>
     ELSE /\ pbk' = [pbk EXCEPT !.Interval = hargs[1][2]]
          /\ hargs' = Tail(hargs)
          /\ kpc' = "pairs"
          /\ UNCHANGED kerr
  /\ hb' = DefaultBackoff
  /\ UNCHANGED <<pvars, svars, cvars, bvars, strvars, gwvars, directive, seen>>

\* handleBackoff, lines 181-202: one turn of the loop
HandlePair ==
  /\ kpc = "pairs"
  /\ hargs # <<>>
  /\ IF \E c \in DOMAIN KeywordCases : Matches(c, hargs, seen)
     THEN LET c == CHOOSE d \in DOMAIN KeywordCases :
                     /\ Matches(d, hargs, seen)
                     /\ \A e \in 1..(d - 1) : ~Matches(e, hargs, seen)
          IN  /\ hb' = [hb EXCEPT ![KeywordCases[c][2]] = Stored(c, hargs[2])]
              /\ seen' = seen \cup {KeywordCases[c][1]}
              /\ hargs' = SubSeq(hargs, 3, Len(hargs))
              /\ UNCHANGED <<kpc, kerr>>
     ELSE /\ ConfigReturn("invalid argument")
          /\ UNCHANGED <<hb, seen, hargs>>
  /\ UNCHANGED <<pvars, svars, cvars, bvars, strvars, gwvars, directive, pbk>>

\* handleBackoff, lines 204-209: b.Check() and p.Backoff = b
HandleCheck ==
  /\ kpc = "pairs"
  /\ hargs = <<>>
  /\ IF CheckBackoff(hb) # "nil"
     THEN /\ ConfigReturn(CheckBackoff(hb))
          /\ UNCHANGED pbk
     ELSE /\ pbk' = hb
          /\ ConfigReturn("nil")
  /\ UNCHANGED <<pvars, svars, cvars, bvars, strvars, gwvars, directive, hargs, hb, seen>>

ConfigNext ==
  \/ HandleInterval
  \/ HandlePair
  \/ HandleCheck

ConfigSpec == ConfigInit /\ [][ConfigNext]_vars

(***************************************************************************)
(* mksignal (janus.go, lines 77-93): the Signal, its BroadcastFunc and its  *)
(* waiters.  The BroadcastFunc is once.Do(func() { close(sig) }); Do reads *)
(* done, and when it is unset locks m, reads done again, runs the function *)
(* and then sets done and unlocks.  The signal handler calls the           *)
(* BroadcastFunc once per SIGINT and the failure watcher calls it once, at *)
(* any moment; Wait, AfterFunc and DelayFunc each have one waiter.         *)
(***************************************************************************)
\* the calls of the BroadcastFunc caller c makes at most
DieLimit(c) == IF c = "handler" THEN MaxDie ELSE 1

\* a Once that does not remember that it has run
OnceForgets == FALSE

\* once.Do: done is set
OnceDone == odone

\* the callbacks a waiter runs: Wait has none
Callbacks(w) == IF w = "Wait" THEN 0 ELSE 1

\* the BroadcastFunc's caller is about to call it
SignalInit ==
  /\ PortholeStart
  /\ SysStart(<<>>)
  /\ BackoffIdle
  /\ StringIdle
  /\ GatewayIdle
  /\ ConfigIdle
  /\ SignalStart
  /\ StartIdle

\* caller c calls the BroadcastFunc: once.Do reads done and returns when it is set
DieBegin(c) ==
  /\ ~spanic
  /\ dcall[c] = "idle"
  /\ dbegun[c] < DieLimit(c)
  /\ dbegun' = [dbegun EXCEPT ![c] = @ + 1]
  /\ dcall' = [dcall EXCEPT ![c] = IF OnceDone THEN "idle" ELSE "lock"]
  /\ UNCHANGED <<pvars, svars, bvars, strvars, gwvars, cfvars, startvars,
                 sigch, sclosed, spanic, odone, omu, waiter, fnruns>>

\* once.Do, slow path: m.Lock()
DieLock(c) ==
  /\ ~spanic
  /\ dcall[c] = "lock"
  /\ omu = "none"
  /\ omu' = c
  /\ dcall' = [dcall EXCEPT ![c] = "slow"]
  /\ UNCHANGED <<pvars, svars, bvars, strvars, gwvars, cfvars, startvars,
                 sigch, sclosed, spanic, odone, dbegun, waiter, fnruns>>

\* once.Do, slow path: done is set by now, m.Unlock(), return
DieSkip(c) ==
  /\ ~spanic
  /\ dcall[c] = "slow"
  /\ OnceDone
  /\ omu' = "none"
  /\ dcall' = [dcall EXCEPT ![c] = "idle"]
  /\ UNCHANGED <<pvars, svars, bvars, strvars, gwvars, cfvars, startvars,
                 sigch, sclosed, spanic, odone, dbegun, waiter, fnruns>>

\* once.Do, slow path: done is unset, close(sig); closing a closed channel panics
DieClose(c) ==
  /\ ~spanic
  /\ dcall[c] = "slow"
  /\ ~OnceDone
  /\ IF sigch = "closed"
       THEN /\ spanic' = TRUE
            /\ UNCHANGED <<sigch, sclosed, dcall>>
       ELSE /\ sigch' = "closed"
            /\ sclosed' = sclosed + 1
            /\ dcall' = [dcall EXCEPT ![c] = "store"]
            /\ UNCHANGED spanic
  /\ UNCHANGED <<pvars, svars, bvars, strvars, gwvars, cfvars, startvars,
                 odone, omu, dbegun, waiter, fnruns>>

\* once.Do, slow path: the deferred done.Store(1) and m.Unlock(), return
DieStore(c) ==
  /\ ~spanic
  /\ dcall[c] = "store"
  /\ odone' = TRUE
  /\ omu' = "none"
  /\ dcall' = [dcall EXCEPT ![c] = "idle"]
  /\ UNCHANGED <<pvars, svars, bvars, strvars, gwvars, cfvars, startvars,
                 sigch, sclosed, spanic, dbegun, waiter, fnruns>>

\* Signal.Wait, line 79: <-s returns once the channel is closed
WaitReturns(w) ==
  /\ ~spanic
  /\ waiter[w] = "wait"
  /\ sigch = "closed"
  /\ waiter' = [waiter EXCEPT ![w] =
                  CASE w = "Wait" -> "done"
                    [] w = "AfterFunc" -> "fn"
                    [] w = "DelayFunc" -> "sleep"]
  /\ UNCHANGED <<pvars, svars, bvars, strvars, gwvars, cfvars, startvars,
                 sigch, sclosed, spanic, odone, omu, dcall, dbegun, fnruns>>

\* Signal.DelayFunc, line 81: time.Sleep(d) returns
SleepOver(w) ==
  /\ ~spanic
  /\ waiter[w] = "sleep"
  /\ waiter' = [waiter EXCEPT ![w] = "fn"]
  /\ UNCHANGED <<pvars, svars, bvars, strvars, gwvars, cfvars, startvars,
                 sigch, sclosed, spanic, odone, omu, dcall, dbegun, fnruns>>

\* Signal.AfterFunc and Signal.DelayFunc, lines 80-81: fn()
RunFn(w) ==
  /\ ~spanic
  /\ waiter[w] = "fn"
  /\ fnruns' = [fnruns EXCEPT ![w] = @ + 1]
  /\ waiter' = [waiter EXCEPT ![w] = "done"]
  /\ UNCHANGED <<pvars, svars, bvars, strvars, gwvars, cfvars, startvars,
                 sigch, sclosed, spanic, odone, omu, dcall, dbegun>>

\* the steps of a call under way and of the waiters (not the decision to call)
SignalProgram ==
  \/ \E c \in Callers : DieLock(c) \/ DieSkip(c) \/ DieClose(c) \/ DieStore(c)
  \/ \E w \in Waiters : WaitReturns(w) \/ SleepOver(w) \/ RunFn(w)

SignalNext ==
  \/ \E c \in Callers : DieBegin(c)
  \/ \E c \in Callers : DieLock(c)
  \/ \E c \in Callers : DieSkip(c)
  \/ \E c \in Callers : DieClose(c)
  \/ \E c \in Callers : DieStore(c)
  \/ \E w \in Waiters : WaitReturns(w)
  \/ \E w \in Waiters : SleepOver(w)
  \/ \E w \in Waiters : RunFn(w)

SignalSpec == SignalInit /\ [][SignalNext]_vars

\* a goroutine that can take a step takes one: a call under way goes on,
\* a released waiter goes on, time.Sleep returns; nobody owes a call
SignalFairSpec == SignalSpec /\ WF_vars(SignalProgram)

(***************************************************************************)
(* gateway.Start (part_003, lines 49-70) of one gateway with up to         *)
(* MaxRunners portholes: Start at its <-errch, its runner goroutines and   *)
(* its context watcher.  As in the supervisor layer, a runner's call of    *)
(* porthole.Listen is one step; the context passed to Start is cancelled   *)
(* by the environment at any moment.                                       *)
(***************************************************************************)
\* Start, lines 50-68: the child context, errch, a runner per porthole and the
\* context watcher exist; Start is about to receive from errch
StartInit ==
  /\ PortholeStart
  /\ SysStart(<<>>)
  /\ BackoffIdle
  /\ StringIdle
  /\ GatewayIdle
  /\ ConfigIdle
  /\ SignalStart
  /\ stn \in Runners
  /\ stctx = FALSE
  /\ stcancel = FALSE
  /\ sterrch = <<>>
  /\ stpc = "recv"
  /\ stret = Nil
  /\ strun = [p \in Runners |-> IF p <= stn THEN "listen" ELSE "none"]
  /\ sterr = [p \in Runners |-> Nil]
  /\ stwatch = "wait"

\* Start's ctx: done when the context passed to Start is, or on Start's cancel()
StartDone == stctx \/ stcancel

\* the environment cancels the context passed to Start
StartCancel ==
  /\ stpc # "idle"
  /\ ~stctx
  /\ stctx' = TRUE
  /\ UNCHANGED <<pvars, svars, bvars, strvars, gwvars, cfvars, sigvars,
                 stn, stcancel, sterrch, stpc, stret, strun, sterr, stwatch>>

\* a runner, line 59: p.Listen(ctx) returns the error of a failed porthole
StartListenFails(p) ==
  /\ strun[p] = "listen"
  /\ sterr' = [sterr EXCEPT ![p] = <<"neterr", p>>]
  /\ strun' = [strun EXCEPT ![p] = "select"]
  /\ UNCHANGED <<pvars, svars, bvars, strvars, gwvars, cfvars, sigvars,
                 stn, stctx, stcancel, sterrch, stpc, stret, stwatch>>

\* a runner, line 59: p.Listen(ctx) returns the error of the cancelled context
StartListenCancelled(p) ==
  /\ strun[p] = "listen"
  /\ StartDone
  /\ sterr' = [sterr EXCEPT ![p] = Canceled]
  /\ strun' = [strun EXCEPT ![p] = "select"]
  /\ UNCHANGED <<pvars, svars, bvars, strvars, gwvars, cfvars, sigvars,
                 stn, stctx, stcancel, sterrch, stpc, stret, stwatch>>

\* a runner, line 61: case <-ctx.Done()
StartSelectDone(p) ==
  /\ strun[p] = "select"
  /\ StartDone
  /\ strun' = [strun EXCEPT ![p] = "done"]
  /\ UNCHANGED <<pvars, svars, bvars, strvars, gwvars, cfvars, sigvars,
                 stn, stctx, stcancel, sterrch, stpc, stret, sterr, stwatch>>

\* a runner, line 62: case errch <- err
StartSelectSend(p) ==
  /\ strun[p] = "select"
  /\ Len(sterrch) < ErrorCap
  /\ sterrch' = Append(sterrch, sterr[p])
  /\ strun' = [strun EXCEPT ![p] = "done"]
  /\ UNCHANGED <<pvars, svars, bvars, strvars, gwvars, cfvars, sigvars,
                 stn, stctx, stcancel, stpc, stret, sterr, stwatch>>

\* the context watcher, line 67: <-ctx.Done()
StartWatchDone ==
  /\ stwatch = "wait"
  /\ StartDone
  /\ stwatch' = "send"
  /\ UNCHANGED <<pvars, svars, bvars, strvars, gwvars, cfvars, sigvars,
                 stn, stctx, stcancel, sterrch, stpc, stret, strun, sterr>>

\* the context watcher, line 67: errch <- ctx.Err()
StartWatchSend ==
  /\ stwatch = "send"
  /\ Len(sterrch) < ErrorCap
  /\ sterrch' = Append(sterrch, Canceled)
  /\ stwatch' = "done"
  /\ UNCHANGED <<pvars, svars, bvars, strvars, gwvars, cfvars, sigvars,
                 stn, stctx, stcancel, stpc, stret, strun, sterr>>

\* Start, lines 51 and 69: return <-errch, the deferred cancel()
StartReturn ==
  /\ stpc = "recv"
  /\ sterrch # <<>>
  /\ stret' = Received(sterrch)
  /\ sterrch' = Tail(sterrch)
  /\ stcancel' = TRUE
  /\ stpc' = "returned"
  /\ UNCHANGED <<pvars, svars, bvars, strvars, gwvars, cfvars, sigvars,
                 stn, stctx, strun, sterr, stwatch>>

\* the steps of Start and of its goroutines (not the environment's)
StartProgram ==
  \/ StartWatchDone \/ StartWatchSend \/ StartReturn
  \/ \E p \in Runners :
       StartListenCancelled(p) \/ StartSelectDone(p) \/ StartSelectSend(p)

StartNext ==
  \/ StartCancel
  \/ \E p \in Runners : StartListenFails(p)
  \/ \E p \in Runners : StartListenCancelled(p)
  \/ \E p \in Runners : StartSelectDone(p)
  \/ \E p \in Runners : StartSelectSend(p)
  \/ StartWatchDone
  \/ StartWatchSend
  \/ StartReturn

StartSpec == StartInit /\ [][StartNext]_vars

\* a goroutine that can take a step takes one, and a Listen whose context is
\* cancelled returns (C4); the environment owes no cancellation and no
\* porthole failure
StartFairSpec == StartSpec /\ WF_vars(StartProgram)

(***************************************************************************)
(* Properties of the porthole layer.                                       *)
(***************************************************************************)
IsPrefix(s, t) == Len(s) <= Len(t) /\ SubSeq(t, 1, Len(s)) = s

\* a listen call has returned and none of its reads is in flight
ListenOver == calls > 0 /\ lpc \in {"check", "wait", "done"} /\ ar = <<>>

\* Listen returns the context's error only if the context is cancelled, and never nil
ListenOutcomeOK ==
  lpc = "done" => /\ Kind(lret) # "nil"
                  /\ Kind(lret) = "canceled" => pctx

\* C1 as stated: once a listen call is over, the payloads passed to
\* proxy.Write are exactly the datagrams ReadFromUDP returned, in order.
C1_WrittenEqualsRead == ListenOver => written = readOK

\* C1 as amended: the payloads passed to proxy.Write are always a prefix of
\* the datagrams ReadFromUDP returned (in order, unmodified, none twice) and
\* lack at most one of them; once the call is over they are all of them,
\* unless listen returned the cancellation error.
C1_WrittenPrefixOfRead ==
  /\ IsPrefix(written, readOK)
  /\ Len(readOK) <= Len(written) + 1
  /\ (ListenOver /\ Kind(lerr) # "canceled") => written = readOK

\* C1's case: listen returned the cancellation error having written one
\* datagram and read a second one that it never wrote.
C1_Witness ==
  /\ ListenOver
  /\ Kind(lerr) = "canceled"
  /\ Len(written) = 1
  /\ Len(readOK) = 2

\* C4: once the context passed to Listen is cancelled, Listen returns.
C4_CancelledListenReturns == pctx ~> (lpc = "done")

\* C4's case: Listen has returned the cancellation error after the closer
\* closed the socket of a listen call that was cancelled while running.
C4_Witness ==
  /\ lpc = "done"
  /\ pctx
  /\ lret = Canceled
  /\ closes = 1
  /\ conn = "closed"

\* C8 as stated: after a listener-creation error Listen neither waits nor
\* binds again: it is about to report the error, or has returned it.
C8_ListenErrorNotRetried ==
  IsListenOpError(lerr) => \/ lpc = "check"
                           \/ lpc = "done" /\ lret = lerr

C10_GivesUpOnlyAfterShortFailures ==
  (lpc = "done" /\ ~IsCleanClose(lret)) => streak >= Retries

\* C15: a socket listen has bound is never closed twice, and it is closed
\* once the context is cancelled or listen has returned, whatever the read
\* loop was doing.
C15_SocketClosedOnce ==
  /\ [](closes <= 1)
  /\ [](conn = "closed" => closes = 1)
  /\ (conn = "open" /\ (pctx \/ mpc = "idle")) ~> (conn = "closed" /\ closes = 1)

\* C15's case: listen returned because proxy.Write failed and its socket
\* was closed, once.
C15_Witness ==
  /\ Kind(lerr) = "write"
  /\ lpc \in {"check", "wait"}
  /\ conn = "closed"
  /\ closes = 1

\* C16: at most one asyncRead goroutine exists at any time, none when the
\* read loop is about to start one, and none while Listen waits to rebind
\* or binds.
C16_OneReadInFlight ==
  /\ Len(ar) <= 1
  /\ mpc = "loop" => ar = <<>>
  /\ lpc \in {"wait", "bind"} => ar = <<>>

\* C16's case: the context was cancelled while the read of a second bind
\* was in flight.
C16_Witness ==
  /\ calls = 2
  /\ pctx
  /\ Len(ar) = 1
  /\ ar[1].st = "read"
  /\ mpc = "recv"

\* C17 as stated: each time a read returns to the read loop, with n bytes,
\* every byte of the buffer from index n on is zero.
C17_TailZeroAfterEveryRead ==
  [][ReadRecv => \A k \in (n' + 1)..BufLen : buf'[k] = 0]_vars

\* C17 as amended: each time a read returns to the read loop with n bytes
\* and a result other than the context's cancellation, every byte of the
\* buffer from index n on is zero.
C17_TailZeroUnlessCancelled ==
  [][(ReadRecv /\ Kind(merr') # "canceled") =>
        \A k \in (n' + 1)..BufLen : buf'[k] = 0]_vars

\* C17's case: a datagram of one byte was read after one that had filled
\* the buffer, and is about to be written.
C17_Witness ==
  /\ mpc = "write"
  /\ n = 1
  /\ Len(readOK) = 2
  /\ Len(readOK[1]) = BufLen
  /\ buf = [k \in 1..BufLen |-> IF k = 1 THEN readOK[2][1] ELSE 0]

\* C18 as stated: when listen has returned from its read loop, the bytes of
\* the buffer that the last read filled are zero.
C18_BufferZeroedOnExit ==
  (mpc = "idle" /\ calls > 0) => \A k \in 1..n : buf[k] = 0

\* C20: a read that fails with a temporary error leaves listen running on
\* the same socket with the attempt counter unchanged, the buffer zero and
\* the read loop about to issue the next read.
C20_TemporaryErrorKeepsListening ==
  [][(ReadRecv /\ Kind(merr') = "temp") =>
        /\ lpc = "listen" /\ lpc' = "listen"
        /\ mpc' = "loop"
        /\ i' = i
        /\ calls' = calls
        /\ conn' = conn
        /\ buf' = ZeroBuf]_vars

\* C20's case: after a datagram was written a read failed with a temporary
\* error, and the next read is in flight on the same open socket, in the
\* first attempt.
C20_Witness ==
  /\ Kind(merr) = "temp"
  /\ mpc = "recv"
  /\ Len(ar) = 1
  /\ ar[1].st = "read"
  /\ conn = "open"
  /\ calls = 1
  /\ i = 1
  /\ Len(written) = 1

\* C21 as stated: when the context is cancelled before Listen has
\* returned, Listen returns the cancellation error; no socket is bound once
\* the context is cancelled; and a wait that the cancellation finds or
\* interrupts ends with Listen returning the cancellation error.
C21_CancelledListenReturnsCancellation ==
  [][/\ (pctx' /\ lpc' = "done") => lret' = Canceled
     /\ ListenBound => ~pctx
     /\ (pctx /\ lpc = "wait" /\ lpc' # "wait") =>
           (lpc' = "done" /\ lret' = Canceled)]_vars

\* C21 as amended: a wait that the cancellation finds or interrupts ends
\* with Listen returning the cancellation error; once the context is
\* cancelled, a listen call that starts returns the cancellation error
\* without binding; and when the context is cancelled before Listen has
\* returned, Listen returns the cancellation error, or else the error, not
\* a listener-creation error, with which its last attempt failed.
C21_CancelledListenStopsRebinding ==
  [][/\ (pctx' /\ lpc' = "done") =>
           \/ lret' = Canceled
           \/ /\ i' = Retries
              /\ lret' = lerr'
              /\ ~IsCleanClose(lret')
              /\ ~IsListenOpError(lret')
     /\ (pctx /\ calls' # calls) =>
           (lpc' = "check" /\ lerr' = Canceled /\ conn' = "none")
     /\ (pctx /\ lpc = "wait" /\ lpc' # "wait") =>
           (lpc' = "done" /\ lret' = Canceled)]_vars

\* C21's case: the context was cancelled while Listen waited after its
\* second failed attempt, and Listen returned the cancellation error.
C21_Witness ==
  /\ lpc = "done"
  /\ pctx
  /\ lret = Canceled
  /\ ~IsCleanClose(lerr)
  /\ calls = 2
  /\ i = 2


\* a read on the socket the closer closed has failed, and its result is held
\* by its asyncRead goroutine or lies in the result channel
ClosedReadPending ==
  \/ \E k \in 1..Len(ar) : Kind(ar[k].err) = "closed"
  \/ \E k \in 1..Len(errch) : Kind(errch[k].err) = "closed"

\* the read loop never receives, listen never returns and Listen never waits
\* after the error of a read on the closed socket; while the loop runs, the
\* context's error lies in the result channel ahead of any such error
ClosedErrorUnseen ==
  /\ Kind(merr') # "closed"
  /\ Kind(lerr') # "closed"
  /\ Kind(lret') # "closed"
  /\ (ClosedReadPending' /\ mpc' # "idle") =>
        (errch' # <<>> /\ Head(errch').err = Canceled)
  /\ (lpc = "check" /\ lerr = Canceled) => lpc' # "wait"

C2_StartReturnsFirstOutcome ==
  \A g \in Gateways :
    StartReturned(g) =>
      /\ ~IsCleanClose(gret[g]) =>
           /\ first[g].from \in 1..ports[g]
           /\ first[g].err = gret[g]
           /\ rerr[g][first[g].from] = gret[g]
      /\ (\A p \in Portholes : IsCleanClose(rerr[g][p])) =>
           /\ ctx
           /\ gret[g] = Canceled
      /\ (gpc[g] = "wgdone" /\ gret[g] = Canceled) => ctx

\* C2's case: two portholes of a gateway failed, the second one first, and
\* Start returned the second one's error.
C2_Witness ==
  \E g \in Gateways :
    /\ StartReturned(g)
    /\ first[g].from = 2
    /\ runner[g][1] = "done"
    /\ ~IsCleanClose(rerr[g][1])
    /\ gret[g] = rerr[g][2]

\* some gateway's Start has returned an error that is not the context's
SomeGatewayFailed ==
  \E g \in Gateways : StartReturned(g) /\ ~IsCleanClose(gret[g])

\* the system is shut down
AllShutDown ==
  /\ ctx
  /\ shutdown
  /\ \A g \in Gateways : Configured(g) => StartReturned(g)
  /\ mainPc = "returned"

\* C3: once a gateway's Start has returned an error that is not the
\* context's, the context is cancelled, SHUTDOWN fires, every gateway's
\* Start returns and main returns.
C3_FailureShutsEverythingDown == SomeGatewayFailed ~> AllShutDown

\* C3's case: one of two gateways failed, no SIGINT came, and everything
\* was shut down.
C3_Witness ==
  /\ Len(ports) = 2
  /\ sigs = 0
  /\ ~IsCleanClose(gret[1])
  /\ gret[2] = Canceled
  /\ AllShutDown

\* the DelayFunc goroutine has seen SHUTDOWN fire and slept its second
GraceElapsed == dpc \in {"cancel", "done"}

\* C5 as stated: main's context is cancelled only when SHUTDOWN has fired
\* and the grace delay that follows it has elapsed.
C5_CancelOnlyAfterGrace == ctx => (shutdown /\ GraceElapsed)

\* C6: when main has returned, SHUTDOWN has fired and the Start of every
\* gateway has returned.
C6_MainReturnsAfterGateways ==
  mainPc = "returned" =>
    /\ shutdown
    /\ \A g \in Gateways : Configured(g) => StartReturned(g)

\* C6's case: main has returned with two gateways started.
C6_Witness ==
  /\ mainPc = "returned"
  /\ Len(ports) = 2
  /\ \A g \in Gateways : StartReturned(g)

\* C7 as stated: when main has returned, every runner goroutine and every
\* context watcher of every gateway has ended.
C7_NoTaskLeftAtReturn ==
  mainPc = "returned" =>
    \A g \in Gateways :
      /\ gwatch[g] \in {"none", "done"}
      /\ \A p \in Portholes : runner[g][p] \in {"none", "done"}

\* the watcher has logged "Encountered fatal gateway error" and called die()
FatalPathTaken == wpc = "fatal"

\* C22 as stated: the watcher takes its fatal-gateway-error path only when
\* the Start of some gateway has returned an error that is not the
\* cancellation error; in a shutdown started by SIGINT, where every gateway
\* returns the cancellation error, the path is never taken.
C22_FatalPathOnlyOnGatewayFailure == FatalPathTaken => SomeGatewayFailed

(***************************************************************************)
(* Properties of backoff.                                                  *)
(***************************************************************************)
\* C11 as stated: with parameters that pass Check, the delay backoff
\* returns lies between Min and Max.
C11_DelayWithinMinMax ==
  (bpc = "done" /\ CheckBackoff(bo) = "nil") =>
     (bo.Min <= delay /\ delay <= bo.Max)

Occurrences(q, k0, v0) == Cardinality({k \in DOMAIN q : q[k] = <<k0, v0>>})

\* C12: the display strings of two gateways whose forward URLs differ only
\* in the userinfo and in the values of u and p are the same; they hold no
\* userinfo and no parameter u or p, and every other parameter of the
\* forward URL with its value, as often as the URL has it.
C12_StringHidesCredentials ==
  (shown[1] # <<>> /\ shown[2] # <<>>) =>
     /\ shown[1] = shown[2]
     /\ \A k \in 1..2 :
          LET url == shown[k][3]
              query == url[5]
          IN  /\ url[1] = NoUser
              /\ \A j \in DOMAIN query : query[j][1] \notin CredentialKeys
              /\ \A j \in DOMAIN fwd[k].RawQuery :
                   LET pr == fwd[k].RawQuery[j]
                   IN  pr[1] \notin CredentialKeys =>
                         Occurrences(query, pr[1], pr[2])
                           = Occurrences(fwd[k].RawQuery, pr[1], pr[2])

\* C12's case: the strings of two gateways were taken whose URLs differ in
\* the userinfo and in the value of p, and have another parameter after p.
C12_Witness ==
  /\ shown[1] # <<>>
  /\ shown[2] # <<>>
  /\ fwd[1].User # fwd[2].User
  /\ fwd[1].User # NoUser
  /\ fwd[1].RawQuery = <<<<"p", "x">>, <<"db", "foo">>>>
  /\ fwd[2].RawQuery = <<<<"p", "foo">>, <<"db", "foo">>>>

(***************************************************************************)
(* Properties of newGateway.                                               *)
(***************************************************************************)
\* C13 as stated: whatever the caller writes to its PortConfig after
\* newGateway returned, the gateway's stored config, its display string and
\* its portholes' addresses are what they were when newGateway returned.
C13_GatewayUnaffectedByCaller == gwpc = "built" => Observable = built

(***************************************************************************)
(* Properties of handleBackoff.                                            *)
(***************************************************************************)
\* the places of the directive where a keyword stands
KeywordPlaces == {k \in DOMAIN directive : k % 2 = 0}

\* the directive names the field of case c at place k
Names(k, c) == directive[k] = <<"word", KeywordCases[c][1]>>

\* a keyword stands at two places of the directive
KeywordTwice ==
  \E k, m \in KeywordPlaces : k # m /\ directive[k] = directive[m]

\* C14 as stated: after a directive was handled without error, p.Backoff's
\* Interval is the first parameter, every field a keyword names has the
\* value that follows the keyword, and every other field has its default;
\* and a directive with a keyword at two places is rejected.
C14_DirectiveSetsBackoff ==
  kpc = "done" =>
     /\ kerr = "nil" =>
          /\ pbk.Interval = directive[1][2]
          /\ \A c \in DOMAIN KeywordCases :
               IF \E k \in KeywordPlaces : Names(k, c)
               THEN \A k \in KeywordPlaces :
                      Names(k, c) => pbk[KeywordCases[c][2]] = Stored(c, directive[k + 1])
               ELSE pbk[KeywordCases[c][2]] = DefaultBackoff[KeywordCases[c][2]]
     /\ KeywordTwice => kerr # "nil"

(***************************************************************************)
(* Properties of mksignal.                                                 *)
(***************************************************************************)
\* the calls of the BroadcastFunc by caller c that have returned
CallsReturned(c) == dbegun[c] - (IF dcall[c] = "idle" THEN 0 ELSE 1)

SomeCallBegun == \E c \in Callers : dbegun[c] > 0

SomeCallReturned == \E c \in Callers : CallsReturned(c) > 0

\* no call has failed, the channel was closed at most once, and exactly once
\* when a call has returned; no waiter has gone on or run its callback
\* before the first call closed the channel, nor run it twice
SignalSafe ==
  /\ ~spanic
  /\ sclosed <= 1
  /\ SomeCallReturned => (sigch = "closed" /\ sclosed = 1)
  /\ \A w \in Waiters :
       /\ fnruns[w] <= Callbacks(w)
       /\ (waiter[w] # "wait" \/ fnruns[w] > 0) => (SomeCallBegun /\ sclosed = 1)

\* every waiter is released and has run its callback once
AllReleased == \A w \in Waiters : waiter[w] = "done" /\ fnruns[w] = Callbacks(w)

\* C23: whatever the number and interleaving of the calls of the
\* BroadcastFunc by the signal handler and the failure watcher, no call
\* fails and the channel is closed exactly once; every waiter (Wait,
\* AfterFunc, DelayFunc) is released, only after the first call, and runs
\* its callback exactly once.
C23_BroadcastOnce == []SignalSafe /\ (SomeCallReturned ~> AllReleased)

\* C23's case: the handler has called the BroadcastFunc for every SIGINT and
\* the watcher has called it too, and all waiters are through.
C23_Witness ==
  /\ CallsReturned("handler") = MaxDie
  /\ CallsReturned("watcher") = 1
  /\ sclosed = 1
  /\ AllReleased

(***************************************************************************)
(* Properties of gateway.Start.                                            *)
(***************************************************************************)
\* every goroutine Start spawned has ended
StartGoroutinesOver ==
  /\ stwatch = "done"
  /\ \A p \in Runners : strun[p] \in {"none", "done"}

\* C25 as stated: whatever the number of portholes, once Start has returned
\* every goroutine it spawned, the runners and the context watcher,
\* eventually ends; none stays blocked on its send to errch.
C25_StartGoroutinesTerminate == (stpc = "returned") ~> StartGoroutinesOver

====
